---- MODULE Spec2Model ----
(***************************************************************************)
(* Assessment scoring and recommendation engine (ScoringService) with the  *)
(* public response endpoints (start, answer, complete, results) and the    *)
(* admin operations that touch the same tables.                            *)
(*                                                                         *)
(* Ratings, scores and gaps are held in hundredths (2.5 is 250), which is  *)
(* the precision of NUMERIC(5,2) and of toFixed(2).  The database is the   *)
(* committed state; a transaction keeps its writes in a private buffer     *)
(* until COMMIT (PostgreSQL READ COMMITTED: every statement reads the      *)
(* committed state of the moment it runs).  Timestamp columns              *)
(* (computed_at, completed_at, answered_at) are left out.                  *)
(***************************************************************************)
EXTENDS Integers, Sequences, FiniteSets, Bags, TLC

\* ------------------------------------------------------------------ bounds
\* client requests (answer submissions and completion requests) in one behaviour
MaxRequests == 4

\* --------------------------------------------------------------- constants
Null == -1
NaN == -2
TopN == 5

\* pooled database clients; a later one is taken only while the earlier ones are busy
Procs == {1, 2}
\* ids of the response sessions, in the order they are started
Resps == {1, 2}

\* the topic/dimension hierarchy the admin can build, in (d.order_index, t.order_index) order
TopicSeq == <<"t1", "t2">>
Topics == {TopicSeq[i] : i \in 1..Len(TopicSeq)}
TopicDim == [t \in Topics |-> IF t = "t1" THEN "d1" ELSE "d2"]
Dims == {TopicDim[t] : t \in Topics}

\* (currentRating, targetRating) pairs a participant may submit (answerTopicSchema: 1..5)
RatingPairs == {<<200, 400>>, <<400, 200>>}

\* rows of topic_recommendations
TopicRecommendations ==
  << [id |-> "a", topic_id |-> "t1", score_min |-> Null, score_max |-> 250,
      target_min |-> Null, target_max |-> Null, gap_min |-> 50, gap_max |-> Null,
      priority |-> 70, order_index |-> 0, is_active |-> TRUE],
     [id |-> "b", topic_id |-> "t2", score_min |-> Null, score_max |-> Null,
      target_min |-> 400, target_max |-> Null, gap_min |-> Null, gap_max |-> Null,
      priority |-> 90, order_index |-> 0, is_active |-> TRUE],
     [id |-> "c", topic_id |-> "t2", score_min |-> Null, score_max |-> Null,
      target_min |-> Null, target_max |-> Null, gap_min |-> Null, gap_max |-> 0,
      priority |-> 70, order_index |-> 1, is_active |-> TRUE],
     [id |-> "x", topic_id |-> "t1", score_min |-> Null, score_max |-> Null,
      target_min |-> Null, target_max |-> Null, gap_min |-> Null, gap_max |-> Null,
      priority |-> 100, order_index |-> 0, is_active |-> FALSE] >>

\* ------------------------------------------------------ ScoringService
\* value.toFixed(2) of num/den, in hundredths (ties go up)
ToFixed2(num, den) == (2 * num + den) \div (2 * den)

\* variant: the normalized gap is the absolute value of the gap
calculateTopicGapAbs(current, target) ==
  LET gap == target - current
  IN [gap |-> gap, normalizedGap |-> IF gap > 0 THEN gap ELSE 0 - gap]

calculateTopicGap(current, target) ==
  LET gap == target - current
  IN [gap |-> gap, normalizedGap |-> IF gap > 0 THEN gap ELSE 0]

IsFinite(v) == v # NaN /\ v # Null

RECURSIVE SumCurrent(_)
SumCurrent(ts) ==
  IF ts = <<>> THEN 0
  ELSE (IF IsFinite(Head(ts).currentRating) /\ IsFinite(Head(ts).targetRating)
        THEN Head(ts).currentRating ELSE 0) + SumCurrent(Tail(ts))

RECURSIVE SumNormalizedGap(_)
SumNormalizedGap(ts) ==
  IF ts = <<>> THEN 0
  ELSE (IF IsFinite(Head(ts).currentRating) /\ IsFinite(Head(ts).targetRating)
        THEN calculateTopicGap(Head(ts).currentRating, Head(ts).targetRating).normalizedGap
        ELSE 0) + SumNormalizedGap(Tail(ts))

\* variant: the sums are divided by the number of topics, valid or not
calculateDimensionMetricsAllCount(ts) ==
  LET validTopics == Cardinality({i \in 1..Len(ts) :
                        IsFinite(ts[i].currentRating) /\ IsFinite(ts[i].targetRating)})
  IN IF Len(ts) = 0 \/ validTopics = 0 THEN [score |-> 0, gap |-> 0]
     ELSE [score |-> ToFixed2(SumCurrent(ts), Len(ts)),
           gap |-> ToFixed2(SumNormalizedGap(ts), Len(ts))]

calculateDimensionMetrics(ts) ==
  LET validTopics == Cardinality({i \in 1..Len(ts) :
                        IsFinite(ts[i].currentRating) /\ IsFinite(ts[i].targetRating)})
  IN IF Len(ts) = 0 \/ validTopics = 0 THEN [score |-> 0, gap |-> 0]
     ELSE [score |-> ToFixed2(SumCurrent(ts), validTopics),
           gap |-> ToFixed2(SumNormalizedGap(ts), validTopics)]

calculatePriorityScore(gap) == ToFixed2(gap, 1)

RECURSIVE SumField(_, _)
SumField(ds, f) == IF ds = <<>> THEN 0 ELSE Head(ds)[f] + SumField(Tail(ds), f)

calculateOverallMetrics(ds) ==
  IF Len(ds) = 0 THEN [overallScore |-> 0, overallGap |-> 0]
  ELSE [overallScore |-> ToFixed2(SumField(ds, "score"), Len(ds)),
        overallGap |-> ToFixed2(SumField(ds, "gap"), Len(ds))]

\* variant: the upper score bound is exclusive
matchesConditionsStrict(rec, score, target, gap) ==
  /\ (rec.score_min = Null \/ score >= rec.score_min)
  /\ (rec.score_max = Null \/ score < rec.score_max)
  /\ (rec.target_min = Null \/ target >= rec.target_min)
  /\ (rec.target_max = Null \/ target <= rec.target_max)
  /\ (rec.gap_min = Null \/ gap >= rec.gap_min)
  /\ (rec.gap_max = Null \/ gap <= rec.gap_max)

matchesConditions(rec, score, target, gap) ==
  /\ (rec.score_min = Null \/ score >= rec.score_min)
  /\ (rec.score_max = Null \/ score <= rec.score_max)
  /\ (rec.target_min = Null \/ target >= rec.target_min)
  /\ (rec.target_max = Null \/ target <= rec.target_max)
  /\ (rec.gap_min = Null \/ gap >= rec.gap_min)
  /\ (rec.gap_max = Null \/ gap <= rec.gap_max)

\* ---------------------------------------------- computeResults: queries
\* SELECT ... FROM topic_responses tr JOIN topics t JOIN dimensions d
\* WHERE tr.response_id = r ORDER BY d.order_index, t.order_index
RECURSIVE RowsInOrder(_, _, _)
RowsInOrder(order, table, r) ==
  IF order = <<>> THEN <<>>
  ELSE LET hit == {x \in table : x.response_id = r /\ x.topic_id = Head(order)}
       IN (IF hit = {} THEN <<>>
           ELSE LET x == CHOOSE y \in hit : TRUE
                IN << [topic_id |-> x.topic_id, current_rating |-> x.current_rating,
                       target_rating |-> x.target_rating,
                       dimension_id |-> TopicDim[x.topic_id]] >>)
          \o RowsInOrder(Tail(order), table, r)

SelectTopicResponses(table, r) == RowsInOrder(TopicSeq, table, r)

\* ORDER BY tr.priority DESC, tr.order_index ASC
RecBefore(a, b) ==
  \/ a.priority > b.priority
  \/ a.priority = b.priority /\ a.order_index <= b.order_index

InsertRecRow(sorted, x) ==
  LET k == Cardinality({i \in 1..Len(sorted) : RecBefore(sorted[i], x)})
  IN SubSeq(sorted, 1, k) \o <<x>> \o SubSeq(sorted, k + 1, Len(sorted))

RECURSIVE OrderRecRows(_)
OrderRecRows(s) ==
  IF s = <<>> THEN <<>>
  ELSE InsertRecRow(OrderRecRows(SubSeq(s, 1, Len(s) - 1)), s[Len(s)])

\* variant: the query does not filter on is_active
SelectRecsInactiveToo(table, topicIds) ==
  OrderRecRows(SelectSeq(table, LAMBDA x : x.topic_id \in topicIds))

\* WHERE tr.topic_id = ANY(topicIds) AND tr.is_active = true, on a given rule table
SelectRecsFrom(table, topicIds) ==
  OrderRecRows(SelectSeq(table, LAMBDA x : x.topic_id \in topicIds /\ x.is_active))

SelectTopicRecs(topicIds) == SelectRecsFrom(TopicRecommendations, topicIds)

\* ---------------------------------------------- computeResults: matching
\* variant: the rule bounds are evaluated against the signed gap
MatchGapRaw(score, target) == target - score

\* gap used for matching: Number(Math.max(0, target - score).toFixed(2))
MatchGap(score, target) ==
  ToFixed2(IF target - score > 0 THEN target - score ELSE 0, 1)

Snapshot(rec) == [id |-> rec.id, priority |-> rec.priority, topicId |-> rec.topic_id]

\* the recommendations one topic response row pushes, in the order of recsByTopic
RowMatches(row, recs) ==
  LET score == row.current_rating
      target == row.target_rating
      topicRecs == SelectSeq(recs, LAMBDA x : x.topic_id = row.topic_id)
      hits == SelectSeq(topicRecs,
                LAMBDA x : matchesConditions(x, score, target, MatchGap(score, target)))
  IN IF ~IsFinite(score) \/ ~IsFinite(target) THEN <<>>
     ELSE [i \in 1..Len(hits) |-> Snapshot(hits[i])]

RECURSIVE MatchedByDimension(_, _, _)
MatchedByDimension(rows, recs, d) ==
  IF rows = <<>> THEN <<>>
  ELSE (IF Head(rows).dimension_id = d THEN RowMatches(Head(rows), recs) ELSE <<>>)
       \o MatchedByDimension(Tail(rows), recs, d)

\* variant: an unstable sort that puts a later element before its ties
InsertByPriorityBeforeTies(sorted, x) ==
  LET k == Cardinality({i \in 1..Len(sorted) : sorted[i].priority > x.priority})
  IN SubSeq(sorted, 1, k) \o <<x>> \o SubSeq(sorted, k + 1, Len(sorted))

\* recommendations.sort((a, b) => b.priority - a.priority): stable, descending
InsertByPriority(sorted, x) ==
  LET k == Cardinality({i \in 1..Len(sorted) : sorted[i].priority >= x.priority})
  IN SubSeq(sorted, 1, k) \o <<x>> \o SubSeq(sorted, k + 1, Len(sorted))

RECURSIVE SortByPriority(_)
SortByPriority(s) ==
  IF s = <<>> THEN <<>>
  ELSE InsertByPriority(SortByPriority(SubSeq(s, 1, Len(s) - 1)), s[Len(s)])

Slice(s, n) == SubSeq(s, 1, IF Len(s) < n THEN Len(s) ELSE n)

\* variant: the list is cut to five before it is sorted
RankTruncateFirst(recs) == SortByPriority(Slice(recs, TopN))

RankRecommendations(recs) == Slice(SortByPriority(recs), TopN)

\* ---------------------------------------------- computeResults: dimensions
\* dimensionsMap: dimensions in the order of their first topic response row
RECURSIVE DimensionsOf(_, _)
DimensionsOf(rows, found) ==
  IF rows = <<>> THEN <<>>
  ELSE IF Head(rows).dimension_id \in found THEN DimensionsOf(Tail(rows), found)
  ELSE <<Head(rows).dimension_id>>
       \o DimensionsOf(Tail(rows), found \cup {Head(rows).dimension_id})

DimTopics(rows, d) ==
  LET mine == SelectSeq(rows, LAMBDA x : x.dimension_id = d)
  IN [i \in 1..Len(mine) |-> [currentRating |-> mine[i].current_rating,
                              targetRating |-> mine[i].target_rating]]

CalculatedDimension(rows, d) ==
  LET m == calculateDimensionMetrics(DimTopics(rows, d))
  IN [id |-> d, score |-> m.score, gap |-> m.gap,
      priorityScore |-> calculatePriorityScore(m.gap)]

\* calculatedDimensions.sort((a, b) => b.priorityScore - a.priorityScore)
InsertByPriorityScore(sorted, x) ==
  LET k == Cardinality({i \in 1..Len(sorted) : sorted[i].priorityScore >= x.priorityScore})
  IN SubSeq(sorted, 1, k) \o <<x>> \o SubSeq(sorted, k + 1, Len(sorted))

RECURSIVE SortByPriorityScore(_)
SortByPriorityScore(s) ==
  IF s = <<>> THEN <<>>
  ELSE InsertByPriorityScore(SortByPriorityScore(SubSeq(s, 1, Len(s) - 1)), s[Len(s)])

CalculatedDimensions(rows) ==
  LET dimArray == DimensionsOf(rows, {})
  IN SortByPriorityScore([i \in 1..Len(dimArray) |-> CalculatedDimension(rows, dimArray[i])])

\* the VALUES list of the INSERT INTO computed_priorities, one row per dimension
PriorityRows(r, rows, recs) ==
  LET cds == CalculatedDimensions(rows)
  IN { [response_id |-> r, dimension_id |-> cds[i].id,
        dimension_score |-> cds[i].score, dimension_gap |-> cds[i].gap,
        priority_score |-> cds[i].priorityScore, rank_order |-> i,
        recommendations |-> RankRecommendations(MatchedByDimension(rows, recs, cds[i].id))]
      : i \in 1..Len(cds) }

\* variant: the overall figures are averaged over the topics, not the dimensions
OverallOfTopics(rows) ==
  LET m == calculateDimensionMetrics(
             [i \in 1..Len(rows) |-> [currentRating |-> rows[i].current_rating,
                                      targetRating |-> rows[i].target_rating]])
  IN [overallScore |-> m.score, overallGap |-> m.gap]

OverallOf(rows) == calculateOverallMetrics(CalculatedDimensions(rows))

TopicIdsOf(rows) == {rows[i].topic_id : i \in 1..Len(rows)}

\* ------------------------------------------------------------------ state
VARIABLES
  topics,                \* topics table: the topics of the assessment
  assessment_responses,  \* [Resps -> row]; status "none" = no such row
  topic_responses,       \* set of rows, unique on (response_id, topic_id)
  computed_priorities,   \* bag of rows; the code keeps (response_id, dimension_id) unique
  started,               \* number of responses created so far (ids are never reused)
  requests,              \* number of answer and completion requests so far
  pc,                    \* [Procs -> position of the request handler]
  txn,                   \* [Procs -> locals of the computeResults invocation]
  lastIn,                \* [Resps -> topic response rows read by the last committed invocation]
  seen,                  \* what the GET /:responseId/results of this step has read
  fin, fout, fpc         \* argument, result and position of a function under test

pureVars == <<fin, fout, fpc>>

vars == <<topics, assessment_responses, topic_responses, computed_priorities,
          started, requests, pc, txn, lastIn, seen, fin, fout, fpc>>

\* a step that is not a results read leaves no observation behind
Quiet == seen' = <<>> /\ UNCHANGED pureVars

NoRow == [status |-> "none", total_questions |-> 0, answered_questions |-> 0,
          overall_score |-> Null, overall_gap |-> Null]

NoTxn == [r |-> 0, note |-> "", rows |-> <<>>, recs |-> <<>>,
          priorities |-> {}, update |-> <<>>]

InFlight == {"readTopicResponses", "readTopicRecs", "upsert", "update", "commit"}

Exists(r) == assessment_responses[r].status # "none"

PrioritiesOf(table, r) == {x \in BagToSet(table) : x.response_id = r}

AnswersOf(table, r) == {x \in table : x.response_id = r}

Init ==
  /\ topics = {"t1"}
  /\ assessment_responses = [r \in Resps |-> NoRow]
  /\ topic_responses = {}
  /\ computed_priorities = EmptyBag
  /\ started = 0
  /\ requests = 0
  /\ pc = [p \in Procs |-> "idle"]
  /\ txn = [p \in Procs |-> NoTxn]
  /\ lastIn = [r \in Resps |-> <<>>]
  /\ seen = <<>>
  /\ fin = <<>>
  /\ fout = <<>>
  /\ fpc = "off"

\* ------------------------------------------------ public response endpoints
\* POST /start: total_questions is the topic count of this moment
StartRow(total) ==
  [status |-> "in_progress", total_questions |-> total, answered_questions |-> 0,
   overall_score |-> Null, overall_gap |-> Null]

Start ==
  /\ started < Cardinality(Resps)
  /\ started' = started + 1
  /\ assessment_responses' =
       [assessment_responses EXCEPT ![started + 1] = StartRow(Cardinality(topics))]
  /\ UNCHANGED <<topics, topic_responses, computed_priorities, requests, pc, txn, lastIn>>
  /\ Quiet

\* variant: a plain INSERT without the ON CONFLICT clause or the unique constraint
InsertTopicResponse(table, row) == table \cup {row}

\* AssessmentRepository.upsertTopicResponseForAssessment: INSERT ... ON CONFLICT
\* (response_id, topic_id) DO UPDATE
UpsertTopicResponse(table, row) ==
  {x \in table : ~(x.response_id = row.response_id /\ x.topic_id = row.topic_id)}
    \cup {row}

\* variant: the progress update puts the response back to in_progress
ProgressUpdateReopens(row, count) ==
  [row EXCEPT !.answered_questions = count, !.status = "in_progress"]

\* UPDATE assessment_responses SET answered_questions = (SELECT COUNT(*) ...)
ProgressUpdate(row, count) == [row EXCEPT !.answered_questions = count]

\* PUT /:responseId/answer: the guarded upsert and the progress update, taken as one
\* step (the progress update writes answered_questions only)
Answer(r, t, current, target) ==
  /\ requests < MaxRequests
  /\ requests' = requests + 1
  /\ Exists(r)
  /\ t \in topics
  /\ LET g == calculateTopicGap(current, target)
         row == [response_id |-> r, topic_id |-> t, current_rating |-> current,
                 target_rating |-> target, gap |-> g.gap,
                 normalized_gap |-> g.normalizedGap]
         table == UpsertTopicResponse(topic_responses, row)
     IN /\ topic_responses' = table
        /\ assessment_responses' =
             [assessment_responses EXCEPT
                ![r] = ProgressUpdate(@, Cardinality(AnswersOf(table, r)))]
  /\ UNCHANGED <<topics, computed_priorities, started, pc, txn, lastIn>>
  /\ Quiet

\* the completion check of POST /:responseId/complete
CompletionCheck(row, answered_count) ==
  IF row.status = "none" THEN "404"
  ELSE IF answered_count < row.total_questions THEN "400"
  ELSE "compute"

\* POST /:responseId/complete, up to and including BEGIN of computeResults
Complete(p, r) ==
  /\ pc[p] \notin InFlight
  /\ \A q \in Procs : q < p => pc[q] \in InFlight
  /\ started >= r
  /\ requests < MaxRequests
  /\ requests' = requests + 1
  /\ LET verdict == CompletionCheck(assessment_responses[r],
                                    Cardinality(AnswersOf(topic_responses, r)))
     IN pc' = [pc EXCEPT ![p] = IF verdict = "compute" THEN "readTopicResponses"
                                 ELSE verdict]
  /\ txn' = [txn EXCEPT ![p] = [NoTxn EXCEPT !.r = r]]
  /\ UNCHANGED <<topics, assessment_responses, topic_responses, computed_priorities,
                 started, lastIn>>
  /\ Quiet

\* ------------------------------------------- ScoringService.computeResults
Me(p) == txn[p]

\* another open transaction holds the row lock of one of these keys
UpsertBlocked(p, rows) ==
  \E q \in Procs \ {p} :
    /\ pc[q] \in InFlight
    /\ \E x \in txn[q].priorities, y \in rows :
         x.response_id = y.response_id /\ x.dimension_id = y.dimension_id

UpdateBlocked(p) ==
  \E q \in Procs \ {p} :
    pc[q] \in InFlight /\ txn[q].r = txn[p].r /\ txn[q].update # <<>>

\* an open transaction holds a lock on the response row or on one of its rows
Locked(r) ==
  \E q \in Procs :
    pc[q] \in InFlight /\ txn[q].r = r
      /\ (txn[q].priorities # {} \/ txn[q].update # <<>>)

\* finally: client.release(); the locals of the invocation are gone
Released(t, note) == [NoTxn EXCEPT !.r = t.r, !.note = note]

\* 1. topic responses of the response, grouped by dimension
ReadTopicResponses(p) ==
  /\ pc[p] = "readTopicResponses"
  /\ LET rows == SelectTopicResponses(topic_responses, Me(p).r)
     IN /\ txn' = [txn EXCEPT ![p].rows = rows]
        /\ pc' = [pc EXCEPT ![p] = IF Len(rows) > 0 THEN "readTopicRecs" ELSE "upsert"]
  /\ UNCHANGED <<topics, assessment_responses, topic_responses, computed_priorities,
                 started, requests, lastIn>>
  /\ Quiet

\* active recommendation rules of the answered topics
ReadTopicRecs(p) ==
  /\ pc[p] = "readTopicRecs"
  /\ txn' = [txn EXCEPT ![p].recs = SelectTopicRecs(TopicIdsOf(Me(p).rows))]
  /\ pc' = [pc EXCEPT ![p] = "upsert"]
  /\ UNCHANGED <<topics, assessment_responses, topic_responses, computed_priorities,
                 started, requests, lastIn>>
  /\ Quiet

\* variant: a plain INSERT without the conflict clause
InsertPriorities(table, rows) == table (+) SetToBag(rows)

\* variant: the conflict target is dimension_id alone
UpsertByDimension(table, rows) ==
  LET kept == {x \in BagToSet(table) : ~\E y \in rows : y.dimension_id = x.dimension_id}
  IN [x \in kept |-> table[x]] (+) SetToBag(rows)

\* INSERT INTO computed_priorities ... ON CONFLICT (response_id, dimension_id) DO UPDATE
UpsertPriorities(table, rows) ==
  LET kept == {x \in BagToSet(table) :
                 ~\E y \in rows : y.response_id = x.response_id
                                  /\ y.dimension_id = x.dimension_id}
  IN [x \in kept |-> table[x]] (+) SetToBag(rows)

\* UPDATE assessment_responses SET status = 'completed', ... WHERE id = $1
UpdateResponse(row, upd) ==
  IF upd = <<>> \/ row.status = "none" THEN row
  ELSE [row EXCEPT !.status = "completed",
                   !.overall_score = upd[1].overall_score,
                   !.overall_gap = upd[1].overall_gap]

\* variant: the statement is sent outside the transaction and takes effect at once
InTransactionAutocommit(table, rows) ==
  LET kept == {x \in BagToSet(table) :
                 ~\E y \in rows : y.response_id = x.response_id
                                  /\ y.dimension_id = x.dimension_id}
  IN [x \in kept |-> table[x]] (+) SetToBag(rows)

\* a statement sent on the client between BEGIN and COMMIT changes nothing others can read
InTransaction(table, rows) == table

\* variant: the catch block does not roll back and the writes stay
RollbackKeepsWrites(table, pending) ==
  LET kept == {x \in BagToSet(table) :
                 ~\E y \in pending : y.response_id = x.response_id
                                     /\ y.dimension_id = x.dimension_id}
  IN [x \in kept |-> table[x]] (+) SetToBag(pending)

\* ROLLBACK: the writes of the transaction are dropped
Rollback(table, pending) == table

\* 2.-3. dimension metrics, ranking and the batched upsert (skipped without dimensions);
\* the insert violates the foreign key when the response row is gone
Upsert(p) ==
  /\ pc[p] = "upsert"
  /\ LET rows == PriorityRows(Me(p).r, Me(p).rows, Me(p).recs)
     IN IF rows = {}
        THEN /\ pc' = [pc EXCEPT ![p] = "update"]
             /\ txn' = txn
             /\ computed_priorities' = computed_priorities
        ELSE IF ~Exists(Me(p).r)
        THEN /\ pc' = [pc EXCEPT ![p] = "failed"]
             /\ txn' = [txn EXCEPT ![p] = Released(@, "clean")]
             /\ computed_priorities' = computed_priorities
        ELSE /\ ~UpsertBlocked(p, rows)
             /\ pc' = [pc EXCEPT ![p] = "update"]
             /\ txn' = [txn EXCEPT ![p].priorities = rows]
             /\ computed_priorities' = InTransaction(computed_priorities, rows)
  /\ UNCHANGED <<topics, assessment_responses, topic_responses, started, requests,
                 lastIn>>
  /\ Quiet

\* 4.-5. overall metrics and the update of the response row
Update(p) ==
  /\ pc[p] = "update"
  /\ ~UpdateBlocked(p)
  /\ LET o == OverallOf(Me(p).rows)
     IN txn' = [txn EXCEPT ![p].update =
                  IF Exists(Me(p).r)
                  THEN << [overall_score |-> o.overallScore,
                           overall_gap |-> o.overallGap] >>
                  ELSE <<>>]
  /\ pc' = [pc EXCEPT ![p] = "commit"]
  /\ UNCHANGED <<topics, assessment_responses, topic_responses, computed_priorities,
                 started, requests, lastIn>>
  /\ Quiet

\* the invocation repeats the last committed one of its response on the same rows
SameInputs(p) ==
  /\ assessment_responses[Me(p).r].status = "completed"
  /\ lastIn[Me(p).r] = Me(p).rows

\* what the commit of p is for its response: the first completion, a recomputation
\* on the rows of the last one, or a recomputation on other rows
Repeats(p) ==
  IF assessment_responses[Me(p).r].status # "completed" THEN "first"
  ELSE IF SameInputs(p) THEN "same" ELSE "other"

\* COMMIT: the writes of the transaction become visible together
Commit(p) ==
  /\ pc[p] = "commit"
  /\ computed_priorities' = UpsertPriorities(computed_priorities, Me(p).priorities)
  /\ assessment_responses' =
       [assessment_responses EXCEPT ![Me(p).r] = UpdateResponse(@, Me(p).update)]
  /\ lastIn' = [lastIn EXCEPT ![Me(p).r] = Me(p).rows]
  /\ pc' = [pc EXCEPT ![p] = "done"]
  /\ txn' = [txn EXCEPT ![p] = Released(@, Repeats(p))]
  /\ UNCHANGED <<topics, topic_responses, started, requests>>
  /\ Quiet

\* a statement of the transaction (a read, the upsert, the update or COMMIT) throws:
\* catch block, ROLLBACK, rethrow
HasStatement(p) ==
  /\ pc[p] \in InFlight
  /\ pc[p] = "upsert" => Len(Me(p).rows) > 0

Fail(p) ==
  /\ HasStatement(p)
  /\ computed_priorities' = Rollback(computed_priorities, Me(p).priorities)
  /\ pc' = [pc EXCEPT ![p] = "failed"]
  /\ txn' = [txn EXCEPT ![p] = Released(@, IF Me(p).priorities # {} THEN "wrote"
                                          ELSE "clean")]
  /\ UNCHANGED <<topics, assessment_responses, topic_responses, started, requests,
                 lastIn>>
  /\ Quiet

\* ---------------------------------------------------------------- readers
\* GET /:responseId/results: one statement reads the response row and its priorities
ReadResults(respTable, cpTable, r) ==
  [r |-> r, status |-> respTable[r].status,
   overall_score |-> respTable[r].overall_score,
   overall_gap |-> respTable[r].overall_gap,
   priorities |-> PrioritiesOf(cpTable, r)]

GetResults(r) ==
  /\ Exists(r)
  /\ seen' = <<ReadResults(assessment_responses, computed_priorities, r)>>
  /\ UNCHANGED <<topics, assessment_responses, topic_responses, computed_priorities,
                 started, requests, pc, txn, lastIn>>
  /\ UNCHANGED pureVars

\* ------------------------------------------------------------------ admin
\* PUT /api/admin/assessments/:id: the topics of the payload are upserted
AdminPut(t) ==
  /\ t \notin topics
  /\ \A i \in 1..Len(TopicSeq) :
       TopicSeq[i] = t => \A j \in 1..(i - 1) : TopicSeq[j] \in topics
  /\ topics' = topics \cup {t}
  /\ UNCHANGED <<assessment_responses, topic_responses, computed_priorities,
                 started, requests, pc, txn, lastIn>>
  /\ Quiet

\* DELETE /api/admin/responses/:id
AdminDeleteResponse(r) ==
  /\ Exists(r)
  /\ ~Locked(r)
  /\ computed_priorities' =
       [x \in {y \in BagToSet(computed_priorities) : y.response_id # r}
          |-> computed_priorities[x]]
  /\ topic_responses' = {x \in topic_responses : x.response_id # r}
  /\ assessment_responses' = [assessment_responses EXCEPT ![r] = NoRow]
  /\ UNCHANGED <<topics, started, requests, pc, txn, lastIn>>
  /\ Quiet

Next ==
  \/ Start
  \/ \E r \in Resps, t \in Topics, a \in RatingPairs : Answer(r, t, a[1], a[2])
  \/ \E p \in Procs, r \in Resps : Complete(p, r)
  \/ \E p \in Procs : ReadTopicResponses(p)
  \/ \E p \in Procs : ReadTopicRecs(p)
  \/ \E p \in Procs : Upsert(p)
  \/ \E p \in Procs : Update(p)
  \/ \E p \in Procs : Commit(p)
  \/ \E p \in Procs : Fail(p)
  \/ \E t \in Topics : AdminPut(t)
  \/ \E r \in Resps : AdminDeleteResponse(r)

Spec == Init /\ [][Next]_vars

\* the same system observed by a results reader
NextRead == Next \/ \E r \in Resps : GetResults(r)

SpecRead == Init /\ [][NextRead]_vars

\* every response of the model belongs to one participant
ResponsesOfParticipant == {r \in Resps : Exists(r)}

\* DELETE /api/admin/participants/:id: the priorities, topic responses and responses of
\* the participant go in one transaction; the delete of a response row waits for an
\* open transaction that holds a lock on it (participants are not part of the state)
AdminDeleteParticipant ==
  /\ ResponsesOfParticipant # {}
  /\ \A r \in ResponsesOfParticipant : ~Locked(r)
  /\ computed_priorities' =
       [x \in {y \in BagToSet(computed_priorities) :
                 y.response_id \notin ResponsesOfParticipant}
          |-> computed_priorities[x]]
  /\ topic_responses' =
       {x \in topic_responses : x.response_id \notin ResponsesOfParticipant}
  /\ assessment_responses' =
       [r \in Resps |-> IF r \in ResponsesOfParticipant THEN NoRow
                        ELSE assessment_responses[r]]
  /\ UNCHANGED <<topics, started, requests, pc, txn, lastIn>>
  /\ Quiet

\* the same system with both admin delete operations
NextAdmin == Next \/ AdminDeleteParticipant

SpecAdmin == Init /\ [][NextAdmin]_vars

\* --------------------------------------------- matchesConditions on its own
MatchRules ==
  { [id |-> "m", topic_id |-> "t1", score_min |-> a, score_max |-> b,
     target_min |-> c, target_max |-> d, gap_min |-> e, gap_max |-> f,
     priority |-> 0, order_index |-> 0, is_active |-> TRUE]
    : a \in {Null, 200}, b \in {Null, 250}, c \in {Null, 400}, d \in {Null, 400},
      e \in {Null, 50}, f \in {Null, 200} }

MatchScores == {150, 200, 250, 300}
MatchTargets == {350, 400, 450}
MatchGaps == {0, 50, 200, 250}

InitMatch ==
  /\ topics = {"t1"}
  /\ assessment_responses = [r \in Resps |-> NoRow]
  /\ topic_responses = {}
  /\ computed_priorities = EmptyBag
  /\ started = 0
  /\ requests = 0
  /\ pc = [p \in Procs |-> "idle"]
  /\ txn = [p \in Procs |-> NoTxn]
  /\ lastIn = [r \in Resps |-> <<>>]
  /\ seen = <<>>
  /\ fin \in [rec : MatchRules, score : MatchScores, target : MatchTargets,
              gap : MatchGaps]
  /\ fout = <<>>
  /\ fpc = "call"

ApplyMatch ==
  /\ fpc = "call"
  /\ fout' = <<matchesConditions(fin.rec, fin.score, fin.target, fin.gap)>>
  /\ fpc' = "return"
  /\ UNCHANGED <<topics, assessment_responses, topic_responses, computed_priorities,
                 started, requests, pc, txn, lastIn, seen, fin>>

SpecMatch == InitMatch /\ [][ApplyMatch]_vars

\* ------------------------------- the computation of computeResults on its own
\* the state machine at rest
EngineIdle ==
  /\ topics = {"t1"}
  /\ assessment_responses = [r \in Resps |-> NoRow]
  /\ topic_responses = {}
  /\ computed_priorities = EmptyBag
  /\ started = 0
  /\ requests = 0
  /\ pc = [p \in Procs |-> "idle"]
  /\ txn = [p \in Procs |-> NoTxn]
  /\ lastIn = [r \in Resps |-> <<>>]
  /\ seen = <<>>

\* an assessment with two topics in one dimension and one in another, in
\* (d.order_index, t.order_index) order
PureTopics == <<"p1", "p2", "p3">>
PureDim == [t \in {"p1", "p2", "p3"} |-> IF t = "p3" THEN "e2" ELSE "e1"]

\* ratings in steps of 0.5, so that every mean below is exact in binary floating point
PureRatings == {<<200, 400>>, <<400, 200>>, <<250, 400>>}

Unanswered == <<>>

\* the rows the topic responses query returns when topic i was answered with ans[i]
RECURSIVE PureRowsFrom(_, _)
PureRowsFrom(ans, i) ==
  IF i > Len(PureTopics) THEN <<>>
  ELSE (IF ans[i] = Unanswered THEN <<>>
        ELSE << [topic_id |-> PureTopics[i], current_rating |-> ans[i][1],
                 target_rating |-> ans[i][2], dimension_id |-> PureDim[PureTopics[i]]] >>)
       \o PureRowsFrom(ans, i + 1)

PureRule(id, topic, smax, tmin, gmin, gmax, prio, oi, active) ==
  [id |-> id, topic_id |-> topic, score_min |-> Null, score_max |-> smax,
   target_min |-> tmin, target_max |-> Null, gap_min |-> gmin, gap_max |-> gmax,
   priority |-> prio, order_index |-> oi, is_active |-> active]

PureRuleIds == {"r1", "r2", "r3", "r4", "r5", "r6", "r7", "r8", "r9"}

\* rows of topic_recommendations in table order, with the given active flags
PureRuleTable(act) ==
  << PureRule("r8", "p2", Null, Null, Null, 0, 30, 0, act["r8"]),
     PureRule("r1", "p1", 250, Null, 50, Null, 70, 0, act["r1"]),
     PureRule("r3", "p1", Null, Null, 0, Null, 70, 1, act["r3"]),
     PureRule("r9", "p3", Null, Null, 50, Null, 70, 0, act["r9"]),
     PureRule("r2", "p1", Null, Null, Null, Null, 90, 0, act["r2"]),
     PureRule("r7", "p2", Null, Null, Null, Null, 70, 1, act["r7"]),
     PureRule("r4", "p1", Null, 400, Null, Null, 50, 0, act["r4"]),
     PureRule("r6", "p2", 250, Null, Null, Null, 90, 0, act["r6"]),
     PureRule("r5", "p2", Null, Null, Null, Null, 70, 0, act["r5"]) >>

InitCompute ==
  /\ EngineIdle
  /\ \E ans \in [1..Len(PureTopics) -> PureRatings \cup {Unanswered}],
        act \in [PureRuleIds -> BOOLEAN] :
       fin = [rows |-> PureRowsFrom(ans, 1), table |-> PureRuleTable(act)]
  /\ fout = <<>>
  /\ fpc = "call"

\* steps 1-4 of computeResults on the rows and the rule table of fin: the rules loaded,
\* the matches of each topic response row, the rows to persist, the overall figures
ApplyCompute ==
  /\ fpc = "call"
  /\ LET recs == IF Len(fin.rows) > 0
                 THEN SelectRecsFrom(fin.table, TopicIdsOf(fin.rows)) ELSE <<>>
     IN fout' = << [recs |-> recs,
                    matched |-> [i \in 1..Len(fin.rows) |-> RowMatches(fin.rows[i], recs)],
                    priorities |-> PriorityRows(1, fin.rows, recs),
                    overall |-> OverallOf(fin.rows)] >>
  /\ fpc' = "return"
  /\ UNCHANGED <<topics, assessment_responses, topic_responses, computed_priorities,
                 started, requests, pc, txn, lastIn, seen, fin>>

\* the dimensions in d.order_index order
PureDimSeq == <<"e1", "e2">>

\* json_agg(p ORDER BY p.order_index): the priority rows in dimension order
RECURSIVE PrioritiesByDimension(_, _)
PrioritiesByDimension(rows, order) ==
  IF order = <<>> THEN <<>>
  ELSE LET hit == {x \in rows : x.dimension_id = Head(order)}
       IN (IF hit = {} THEN <<>> ELSE <<CHOOSE x \in hit : TRUE>>)
          \o PrioritiesByDimension(rows, Tail(order))

normalizeTopicRecommendation(rec) ==
  [id |-> rec.id, topicId |-> rec.topicId, priority |-> rec.priority]

\* priorities.flatMap(row => row.recommendations.map(normalizeTopicRecommendation))
RECURSIVE FlatRecommendations(_)
FlatRecommendations(seq) ==
  IF seq = <<>> THEN <<>>
  ELSE [n \in 1..Len(Head(seq).recommendations) |->
          normalizeTopicRecommendation(Head(seq).recommendations[n])]
       \o FlatRecommendations(Tail(seq))

\* variant: the flattened list is cut without being sorted
TopRecommendationsUnsorted(seq) == Slice(FlatRecommendations(seq), TopN)

\* allRecommendations: .sort((a, b) => b.priority - a.priority).slice(0, 5)
TopRecommendations(seq) == Slice(SortByPriority(FlatRecommendations(seq)), TopN)

\* GET /:responseId/results on the persisted rows: topRecommendations
ApplyTop ==
  /\ fpc = "return"
  /\ fout' = Append(fout, TopRecommendations(
                            PrioritiesByDimension(fout[1].priorities, PureDimSeq)))
  /\ fpc' = "read"
  /\ UNCHANGED <<topics, assessment_responses, topic_responses, computed_priorities,
                 started, requests, pc, txn, lastIn, seen, fin>>

NextCompute == ApplyCompute \/ ApplyTop

SpecCompute == InitCompute /\ [][NextCompute]_vars

\* ------------------------------------- calculateDimensionMetrics on its own
DimCurrents == {200, 300, 400, NaN}
DimTargets == {200, 400, NaN}
DimPairs == [currentRating : DimCurrents, targetRating : DimTargets]

InitDim ==
  /\ EngineIdle
  /\ fin \in {<<>>} \cup [1..1 -> DimPairs] \cup [1..2 -> DimPairs] \cup [1..3 -> DimPairs]
  /\ fout = <<>>
  /\ fpc = "call"

ApplyDim ==
  /\ fpc = "call"
  /\ fout' = <<calculateDimensionMetrics(fin)>>
  /\ fpc' = "return"
  /\ UNCHANGED <<topics, assessment_responses, topic_responses, computed_priorities,
                 started, requests, pc, txn, lastIn, seen, fin>>

SpecDim == InitDim /\ [][ApplyDim]_vars

\* ------------------------------ answers over the whole rating scale, one topic
\* ratings 1.0 to 5.0 in steps of 0.5
AllRatings == {100 + 50 * k : k \in 0..8}

NextAnswer ==
  \/ Start
  \/ \E current \in AllRatings, target \in AllRatings : Answer(1, "t1", current, target)

SpecAnswer == Init /\ [][NextAnswer]_vars

\* ------------------------------------------- concurrent answer submissions
\* the values the answer handler passes to the guarded upsert
SubmittedRow(r, t, current, target) ==
  LET g == calculateTopicGap(current, target)
  IN [response_id |-> r, topic_id |-> t, current_rating |-> current,
      target_rating |-> target, gap |-> g.gap, normalized_gap |-> g.normalizedGap]

\* PUT /:responseId/answer, first statement: the guarded upsert; no row when the
\* response or the topic does not exist (422)
SubmitUpsert(p, r, t, current, target) ==
  /\ pc[p] # "progress"
  /\ requests < MaxRequests
  /\ requests' = requests + 1
  /\ IF Exists(r) /\ t \in topics
     THEN /\ topic_responses' =
               UpsertTopicResponse(topic_responses, SubmittedRow(r, t, current, target))
          /\ pc' = [pc EXCEPT ![p] = "progress"]
          /\ txn' = [txn EXCEPT ![p] = [NoTxn EXCEPT
                        !.r = r, !.rows = <<SubmittedRow(r, t, current, target)>>]]
     ELSE /\ pc' = [pc EXCEPT ![p] = "422"]
          /\ txn' = [txn EXCEPT ![p] = NoTxn]
          /\ UNCHANGED topic_responses
  /\ UNCHANGED <<topics, assessment_responses, computed_priorities, started, lastIn>>
  /\ Quiet

\* PUT /:responseId/answer, second statement: the progress update (no row is updated
\* when the response was deleted in between)
SubmitProgress(p) ==
  /\ pc[p] = "progress"
  /\ LET r == txn[p].r
     IN assessment_responses' =
          IF Exists(r)
          THEN [assessment_responses EXCEPT
                  ![r] = ProgressUpdate(@, Cardinality(AnswersOf(topic_responses, r)))]
          ELSE assessment_responses
  /\ pc' = [pc EXCEPT ![p] = "idle"]
  /\ txn' = [txn EXCEPT ![p] = NoTxn]
  /\ UNCHANGED <<topics, topic_responses, computed_priorities, started, requests, lastIn>>
  /\ Quiet

NextSubmit ==
  \/ Start
  \/ \E p \in Procs, r \in Resps, t \in Topics, a \in RatingPairs :
       SubmitUpsert(p, r, t, a[1], a[2])
  \/ \E p \in Procs : SubmitProgress(p)
  \/ \E t \in Topics : AdminPut(t)
  \/ \E r \in Resps : AdminDeleteResponse(r)

SpecSubmit == Init /\ [][NextSubmit]_vars

\* ------------------------------------------- the answer handler with its checks
\* request bodies: (currentRating, targetRating) in hundredths
RawPairs == {<<200, 400>>, <<400, 250>>, <<230, 400>>, <<50, 400>>, <<300, 550>>}

\* a topic of another assessment
ForeignTopic == "u1"

TopicAssessment(t) == IF t = ForeignTopic THEN "a2" ELSE "a1"

\* every response of the model belongs to this assessment
ResponseAssessment == "a1"

\* answerTopicSchema: z.number().min(1).max(5) for both ratings
answerTopicSchema(current, target) ==
  /\ current >= 100 /\ current <= 500
  /\ target >= 100 /\ target <= 500

\* variant: the INSERT without the join on the response's assessment
upsertTopicResponseUnguarded(table, resps, tps, row) ==
  [rowCount |-> 1, table |-> UpsertTopicResponse(table, row)]

\* AssessmentRepository.upsertTopicResponseForAssessment: INSERT ... SELECT over the
\* response joined with the topic of its assessment; the row count is returned
upsertTopicResponseForAssessment(table, resps, tps, row) ==
  IF /\ resps[row.response_id].status # "none"
     /\ row.topic_id \in tps \cup {ForeignTopic}
     /\ TopicAssessment(row.topic_id) = ResponseAssessment
  THEN [rowCount |-> 1, table |-> UpsertTopicResponse(table, row)]
  ELSE [rowCount |-> 0, table |-> table]

\* PUT /:responseId/answer up to the response or the progress update: 400 on a
\* ZodError, next(error) when the query throws, 422 when no row was written
PutAnswer(p, r, t, current, target, dbOk) ==
  /\ pc[p] # "progress"
  /\ requests < MaxRequests
  /\ requests' = requests + 1
  /\ txn' = [txn EXCEPT ![p] = [NoTxn EXCEPT
                !.r = r, !.rows = <<SubmittedRow(r, t, current, target)>>]]
  /\ IF ~answerTopicSchema(current, target)
     THEN pc' = [pc EXCEPT ![p] = "400"] /\ UNCHANGED topic_responses
     ELSE IF ~dbOk
     THEN pc' = [pc EXCEPT ![p] = "next"] /\ UNCHANGED topic_responses
     ELSE LET result == upsertTopicResponseForAssessment(
                          topic_responses, assessment_responses, topics,
                          SubmittedRow(r, t, current, target))
          IN /\ topic_responses' = result.table
             /\ pc' = [pc EXCEPT ![p] = IF result.rowCount = 0 THEN "422"
                                        ELSE "progress"]
  /\ UNCHANGED <<topics, assessment_responses, computed_priorities, started, lastIn>>
  /\ Quiet

\* one handler at a time (overlapping handlers are the subject of SpecSubmit)
NextPutAnswer ==
  \/ Start
  \/ \E r \in Resps, t \in Topics \cup {ForeignTopic}, a \in RawPairs,
        dbOk \in BOOLEAN : PutAnswer(1, r, t, a[1], a[2], dbOk)
  \/ SubmitProgress(1)
  \/ \E t \in Topics : AdminPut(t)

SpecPutAnswer == Init /\ [][NextPutAnswer]_vars

\* ------------------------------------------------ response session middleware
SessionKeys == {"k1", "k2"}

\* req.header('x-session-token') of a request without the header
NoHeader == "undefined"

Headers == SessionKeys \cup {"", NoHeader}

\* the session_token column: a key, NULL, or no row for the id
StoredTokens == SessionKeys \cup {"null", "absent"}

\* session_token is UNIQUE
SessionTables ==
  {f \in [Resps -> StoredTokens] :
     \A r, q \in Resps : (r # q /\ f[r] \in SessionKeys) => f[r] # f[q]}

Routes == {"answer", "complete", "results", "recommendations"}

\* SELECT id FROM assessment_responses WHERE id = $1 AND session_token = $2
SelectSession(table, responseId, token) ==
  {r \in Resps : r = responseId /\ table[r] \in SessionKeys /\ table[r] = token}

\* variant: the token is looked up without the response id
requireResponseSessionAnyResponse(table, responseId, header, dbOk) ==
  IF header = NoHeader \/ header = "" THEN "401"
  ELSE IF ~dbOk THEN "next(error)"
  ELSE IF {r \in Resps : table[r] = header} = {} THEN "403"
  ELSE "next"

requireResponseSession(table, responseId, header, dbOk) ==
  IF header = NoHeader \/ header = "" THEN "401"
  ELSE IF ~dbOk THEN "next(error)"
  ELSE IF SelectSession(table, responseId, header) = {} THEN "403"
  ELSE "next"

InitSession ==
  /\ EngineIdle
  /\ fin \in [table : SessionTables, responseId : Resps, header : Headers,
              dbOk : BOOLEAN, route : Routes]
  /\ fout = <<>>
  /\ fpc = "call"

ApplySession ==
  /\ fpc = "call"
  /\ fout' = <<requireResponseSession(fin.table, fin.responseId, fin.header, fin.dbOk)>>
  /\ fpc' = "return"
  /\ UNCHANGED <<topics, assessment_responses, topic_responses, computed_priorities,
                 started, requests, pc, txn, lastIn, seen, fin>>

\* router.<method>('/:responseId/<route>', requireResponseSession, handler): the
\* handler runs after next()
RunRoute ==
  /\ fpc = "return"
  /\ fout[1] = "next"
  /\ fout' = Append(fout, [route |-> fin.route, responseId |-> fin.responseId])
  /\ fpc' = "handled"
  /\ UNCHANGED <<topics, assessment_responses, topic_responses, computed_priorities,
                 started, requests, pc, txn, lastIn, seen, fin>>

NextSession == ApplySession \/ RunRoute

SpecSession == InitSession /\ [][NextSession]_vars

\* ------------------------------------------------------------ migration runner
\* applyMigrations runs of one directory, one after another; fin is the sorted file
\* list, fout the database and the locals of the run, fpc the position in the loop
MaxRuns == 3

MigrationDirs == {<<"001.sql", "002.sql">>, <<"001.sql", "002.sql", "003.ts">>}

MigrationFiles == {"001.sql", "002.sql", "003.ts"}

\* variant: nothing is ever skipped
AlreadyAppliedNever(appliedFiles, filename) == FALSE

\* appliedFiles.has(filename)
AlreadyApplied(appliedFiles, filename) == filename \in appliedFiles

InitMigrate ==
  /\ EngineIdle
  /\ fin \in MigrationDirs
  /\ fout = [schema_migrations |-> {}, effects |-> [f \in MigrationFiles |-> 0],
             appliedFiles |-> {}, i |-> 0, pendingBody |-> FALSE, pendingRow |-> FALSE,
             runs |-> 0, last |-> "none"]
  /\ fpc = "idle"

MigrateFrame ==
  UNCHANGED <<topics, assessment_responses, topic_responses, computed_priorities,
              started, requests, pc, txn, lastIn, seen, fin>>

\* pool.connect, CREATE TABLE IF NOT EXISTS, SELECT filename FROM schema_migrations
MigStart ==
  /\ fpc = "idle"
  /\ fout.runs < MaxRuns
  /\ fout' = [fout EXCEPT !.runs = @ + 1, !.appliedFiles = fout.schema_migrations,
                          !.i = 1]
  /\ fpc' = "loop"
  /\ MigrateFrame

\* the continue of the loop
MigSkip ==
  /\ fpc = "loop"
  /\ fout.i <= Len(fin)
  /\ AlreadyApplied(fout.appliedFiles, fin[fout.i])
  /\ fout' = [fout EXCEPT !.i = @ + 1]
  /\ UNCHANGED fpc
  /\ MigrateFrame

\* client.query('BEGIN')
MigBegin ==
  /\ fpc = "loop"
  /\ fout.i <= Len(fin)
  /\ ~AlreadyApplied(fout.appliedFiles, fin[fout.i])
  /\ fpc' = "begun"
  /\ UNCHANGED fout
  /\ MigrateFrame

\* the body of the file runs inside the transaction
MigBody ==
  /\ fpc = "begun"
  /\ fout' = [fout EXCEPT !.pendingBody = TRUE]
  /\ fpc' = "bodyDone"
  /\ MigrateFrame

\* INSERT INTO schema_migrations (filename is the primary key)
MigRecord ==
  /\ fpc = "bodyDone"
  /\ fin[fout.i] \notin fout.schema_migrations
  /\ fout' = [fout EXCEPT !.pendingRow = TRUE]
  /\ fpc' = "inserted"
  /\ MigrateFrame

\* COMMIT: the body and the tracking row become visible together
MigCommit ==
  /\ fpc = "inserted"
  /\ fout' = [fout EXCEPT
       !.schema_migrations = IF fout.pendingRow THEN @ \cup {fin[fout.i]} ELSE @,
       !.effects[fin[fout.i]] = IF fout.pendingBody THEN @ + 1 ELSE @,
       !.pendingBody = FALSE, !.pendingRow = FALSE, !.i = @ + 1]
  /\ fpc' = "loop"
  /\ MigrateFrame

\* the body, the INSERT or the COMMIT throws: ROLLBACK, rethrow, release
MigFail ==
  /\ fpc \in {"begun", "bodyDone", "inserted"}
  /\ fout' = [fout EXCEPT !.pendingBody = FALSE, !.pendingRow = FALSE,
                          !.last = "failed"]
  /\ fpc' = "idle"
  /\ MigrateFrame

\* the loop is through: 'Migrations completed successfully', release
MigEnd ==
  /\ fpc = "loop"
  /\ fout.i > Len(fin)
  /\ fout' = [fout EXCEPT !.last = "ok"]
  /\ fpc' = "idle"
  /\ MigrateFrame

NextMigrate ==
  \/ MigStart \/ MigSkip \/ MigBegin \/ MigBody \/ MigRecord \/ MigCommit
  \/ MigFail \/ MigEnd

SpecMigrate == InitMigrate /\ [][NextMigrate]_vars

\* ------------------------------------------------------------------ admin login
MaxLogins == 7

AUTH_FAIL_MSG == "Invalid credentials"

\* login_attempts + 1 >= 5 sets locked_until
LockThreshold == 5

\* the account of the users table; locked stands for locked_until > now
AdminEmail == "admin@x"

AdminPassword == "right"

\* AuthService.login: the thrown message or success, and the row it leaves
login(user, email, password, dbOk) ==
  IF ~dbOk THEN [ok |-> FALSE, cause |-> "db", message |-> "connection refused",
                 user |-> user]
  ELSE IF email # AdminEmail
  THEN [ok |-> FALSE, cause |-> "unknown", message |-> AUTH_FAIL_MSG, user |-> user]
  ELSE IF user.locked
  THEN [ok |-> FALSE, cause |-> "locked", message |-> AUTH_FAIL_MSG, user |-> user]
  ELSE IF ~user.is_active
  THEN [ok |-> FALSE, cause |-> "inactive", message |-> AUTH_FAIL_MSG, user |-> user]
  ELSE IF password # AdminPassword
  THEN [ok |-> FALSE, cause |-> "password", message |-> AUTH_FAIL_MSG,
        user |-> [user EXCEPT !.login_attempts = @ + 1,
                              !.locked = (user.login_attempts + 1 >= LockThreshold)
                                          \/ user.locked]]
  ELSE [ok |-> TRUE, cause |-> "", message |-> "",
        user |-> [user EXCEPT !.login_attempts = 0, !.locked = FALSE]]

\* variant: the handler passes the thrown message on
LoginResponseEchoes(result) ==
  IF result.ok THEN [status |-> 200, success |-> TRUE, error |-> ""]
  ELSE [status |-> 401, success |-> FALSE, error |-> result.message]

\* POST /login: the response of the handler
LoginResponse(result) ==
  IF result.ok THEN [status |-> 200, success |-> TRUE, error |-> ""]
  ELSE [status |-> 401, success |-> FALSE, error |-> AUTH_FAIL_MSG]

InitLogin ==
  /\ EngineIdle
  /\ fin \in [login_attempts : {0}, locked : {FALSE}, is_active : BOOLEAN]
  /\ fout = <<>>
  /\ fpc = "0"

\* fin is the users row, fout the last request with its response, fpc the number of
\* requests so far
LoginCount == CHOOSE n \in 0..(MaxLogins + 1) : ToString(n) = fpc

PostLogin(email, password, dbOk) ==
  /\ LoginCount < MaxLogins
  /\ LET result == login(fin, email, password, dbOk)
     IN /\ fin' = result.user
        /\ fout' = <<[cause |-> result.cause, response |-> LoginResponse(result)]>>
  /\ fpc' = ToString(LoginCount + 1)
  /\ UNCHANGED <<topics, assessment_responses, topic_responses, computed_priorities,
                 started, requests, pc, txn, lastIn, seen>>

\* time passes beyond locked_until
LockExpires ==
  /\ fin.locked
  /\ fin' = [fin EXCEPT !.locked = FALSE]
  /\ UNCHANGED <<topics, assessment_responses, topic_responses, computed_priorities,
                 started, requests, pc, txn, lastIn, seen, fout, fpc>>

NextLogin ==
  \/ \E email \in {AdminEmail, "ghost@x"}, password \in {AdminPassword, "wrong"},
        dbOk \in BOOLEAN : PostLogin(email, password, dbOk)
  \/ LockExpires

SpecLogin == InitLogin /\ [][NextLogin]_vars

\* ------------------------------------------------------------- RBAC middleware
\* role strings of users: the three of the hierarchy and three outside it
RoleNames == {"creator", "admin", "super_admin", "auditor", "guest", ""}

\* the roles the routes pass to requireRole are roles of ROLE_LEVEL
AllowedRoleNames == {"creator", "admin", "super_admin"}

\* req.user is undefined
NoUser == "undefined"

\* ROLE_LEVEL[role] ?? -1
resolveRoleLevel(role) ==
  CASE role = "creator" -> 10
    [] role = "admin" -> 20
    [] role = "super_admin" -> 30
    [] OTHER -> -1

\* Math.min(...allowedRoles.map(resolveRoleLevel)) of a non-empty list
minAllowedLevel(allowedRoles) ==
  CHOOSE m \in {resolveRoleLevel(a) : a \in allowedRoles} :
    \A a \in allowedRoles : m <= resolveRoleLevel(a)

\* variant: only the listed roles pass
requireRoleListedOnly(allowedRoles, user) ==
  IF user = NoUser THEN "401"
  ELSE IF user \notin allowedRoles THEN "403" ELSE "next"

\* requireRole(...allowedRoles)(req, res, next); Math.min() of no roles is Infinity,
\* which is not finite
requireRole(allowedRoles, user) ==
  IF user = NoUser THEN "401"
  ELSE LET isAllowedByHierarchy ==
             /\ allowedRoles # {}
             /\ resolveRoleLevel(user) >= minAllowedLevel(allowedRoles)
           isAllowedByDirectMatch == user \in allowedRoles
       IN IF ~isAllowedByHierarchy /\ ~isAllowedByDirectMatch THEN "403" ELSE "next"

InitRole ==
  /\ EngineIdle
  /\ fin \in [allowedRoles : SUBSET AllowedRoleNames, user : RoleNames \cup {NoUser}]
  /\ fout = <<>>
  /\ fpc = "call"

ApplyRole ==
  /\ fpc = "call"
  /\ fout' = <<requireRole(fin.allowedRoles, fin.user)>>
  /\ fpc' = "return"
  /\ UNCHANGED <<topics, assessment_responses, topic_responses, computed_priorities,
                 started, requests, pc, txn, lastIn, seen, fin>>

SpecRole == InitRole /\ [][ApplyRole]_vars

\* ------------------------------------------------------------- CSRF middleware
\* a cookie or header the request does not carry
Undefined == "undefined"

Methods == {"GET", "HEAD", "OPTIONS", "POST", "PUT", "PATCH", "DELETE"}

\* isSafeMethod on the upper-cased method
isSafeMethod(method) == method \in {"GET", "HEAD", "OPTIONS"}

\* values of req.cookies.csrf_token and of the x-csrf-token header
TokenValues == {Undefined, "", "t1", "t2"}

\* the csrf_token entry of the raw Cookie header, as sent
RawCookies == {Undefined, "t1", "t%32"}

decodeURIComponent(s) == IF s = "t%32" THEN "t2" ELSE s

\* readCookie: req.cookies first, the raw Cookie header otherwise
readCookie(cookieMap, rawCookie) ==
  IF cookieMap # Undefined /\ cookieMap # "" THEN cookieMap
  ELSE IF rawCookie = Undefined THEN Undefined
  ELSE decodeURIComponent(rawCookie)

\* variant: the two tokens are not compared
csrfProtectionPresenceOnly(method, cookieMap, rawCookie, headerToken) ==
  IF isSafeMethod(method) THEN "next"
  ELSE LET cookieToken == readCookie(cookieMap, rawCookie)
       IN IF cookieToken \in {Undefined, ""} \/ headerToken \in {Undefined, ""}
          THEN "403" ELSE "next"

csrfProtection(method, cookieMap, rawCookie, headerToken) ==
  IF isSafeMethod(method) THEN "next"
  ELSE LET cookieToken == readCookie(cookieMap, rawCookie)
       IN IF \/ cookieToken \in {Undefined, ""}
             \/ headerToken \in {Undefined, ""}
             \/ cookieToken # headerToken
          THEN "403" ELSE "next"

InitCsrf ==
  /\ EngineIdle
  /\ fin \in [method : Methods, cookies : TokenValues, rawCookie : RawCookies,
              header : TokenValues]
  /\ fout = <<>>
  /\ fpc = "call"

ApplyCsrf ==
  /\ fpc = "call"
  /\ fout' = <<csrfProtection(fin.method, fin.cookies, fin.rawCookie, fin.header)>>
  /\ fpc' = "return"
  /\ UNCHANGED <<topics, assessment_responses, topic_responses, computed_priorities,
                 started, requests, pc, txn, lastIn, seen, fin>>

SpecCsrf == InitCsrf /\ [][ApplyCsrf]_vars

\* ------------------------------------- computeResults: statements on the client
\* the queries between BEGIN and COMMIT: the rule query is skipped without answered
\* topics and the upsert without dimensions
QueryLists ==
  {<<"selectTopicResponses", "selectTopicRecs", "upsert", "update">>,
   <<"selectTopicResponses", "update">>}

\* what the try block sends, in order
TryStatements(queries) == <<"BEGIN">> \o queries \o <<"COMMIT">>

\* variant: the client is released only after a successful COMMIT
finallyBlockOnSuccess(outcome) == IF outcome = "return" THEN <<"release">> ELSE <<>>

\* finally { client.release() }
finallyBlock(outcome) == <<"release">>

\* fin: the queries of the invocation, the statement that throws (0: none) and
\* whether the ROLLBACK throws as well
InitTxn ==
  /\ EngineIdle
  /\ fin \in {in \in [queries : QueryLists, failAt : 0..6, rollbackFails : BOOLEAN] :
                /\ in.failAt <= Len(TryStatements(in.queries))
                /\ in.rollbackFails => in.failAt # 0}
  /\ fout = [log |-> <<>>, i |-> 1, outcome |-> "", error |-> ""]
  /\ fpc = "try"

TxnFrame ==
  UNCHANGED <<topics, assessment_responses, topic_responses, computed_priorities,
              started, requests, pc, txn, lastIn, seen, fin>>

\* await client.query(...) inside the try block; after COMMIT the result is returned
TxnStatement ==
  /\ fpc = "try"
  /\ LET stmts == TryStatements(fin.queries)
         s == stmts[fout.i]
     IN IF fin.failAt = fout.i
        THEN /\ fout' = [fout EXCEPT !.log = Append(@, s), !.error = s]
             /\ fpc' = "catch"
        ELSE /\ fout' = [fout EXCEPT !.log = Append(@, s), !.i = @ + 1,
                            !.outcome = IF fout.i = Len(stmts) THEN "return" ELSE @]
             /\ fpc' = IF fout.i = Len(stmts) THEN "finally" ELSE "try"
  /\ TxnFrame

\* catch (error) { await client.query('ROLLBACK'); throw error }
TxnCatch ==
  /\ fpc = "catch"
  /\ fout' = [fout EXCEPT !.log = Append(@, "ROLLBACK"), !.outcome = "throw",
                          !.error = IF fin.rollbackFails THEN "ROLLBACK" ELSE @]
  /\ fpc' = "finally"
  /\ TxnFrame

TxnFinally ==
  /\ fpc = "finally"
  /\ fout' = [fout EXCEPT !.log = @ \o finallyBlock(fout.outcome)]
  /\ fpc' = IF fout.outcome = "return" THEN "returned" ELSE "thrown"
  /\ TxnFrame

NextTxn == TxnStatement \/ TxnCatch \/ TxnFinally

SpecTxn == InitTxn /\ [][NextTxn]_vars

\* ================================================================= claims
\* the committed tables
Tables == <<topics, assessment_responses, topic_responses, computed_priorities>>

\* p takes a step of its computeResults invocation
StepOf(p) == pc[p] \in InFlight /\ pc'[p] # pc[p]

Commits(p) == pc[p] = "commit" /\ pc'[p] = "done"

\* what the last committed invocation on r computed
LastPriorities(r) ==
  PriorityRows(r, lastIn[r], SelectTopicRecs(TopicIdsOf(lastIn[r])))

\* C1: from BEGIN on, no step of a computeResults invocation other than its COMMIT
\* changes a committed table; in particular the step on which it fails (after the
\* upsert, after the update, at COMMIT) leaves the database as it was before the call.
C1_RollbackOnFailure ==
  [][\A p \in Procs : (StepOf(p) /\ ~Commits(p)) => UNCHANGED Tables]_vars

\* an invocation failed after its upsert and the response is still in progress without rows
C1_Witness ==
  \E p \in Procs :
    /\ pc[p] = "failed"
    /\ txn[p].note = "wrote"
    /\ assessment_responses[txn[p].r].status = "in_progress"
    /\ PrioritiesOf(computed_priorities, txn[p].r) = {}

\* C2: a results read sees all of an invocation's writes or none of them: a response
\* read as completed comes with every priority row and the overall figures of the last
\* committed invocation, and a response not read as completed comes with no row at all.
C2_ReaderSeesAllOrNone ==
  \A i \in 1..Len(seen) :
    LET o == seen[i]
    IN IF o.status = "completed"
       THEN /\ LastPriorities(o.r) \subseteq o.priorities
            /\ o.overall_score = OverallOf(lastIn[o.r]).overallScore
            /\ o.overall_gap = OverallOf(lastIn[o.r]).overallGap
       ELSE /\ o.priorities = {}
            /\ o.overall_score = Null
            /\ o.overall_gap = Null

\* a read taken while an invocation on the response has written but not committed
C2_Witness ==
  /\ seen # <<>>
  /\ seen[1].status = "in_progress"
  /\ seen[1].priorities = {}
  /\ \E p \in Procs :
       /\ pc[p] \in {"update", "commit"}
       /\ txn[p].r = seen[1].r
       /\ txn[p].priorities # {}

\* C3: an invocation that commits on the topic response rows the last committed
\* invocation of the response read leaves the priority rows (one per dimension, no
\* duplicate) and the response row as they were.
C3_Idempotent ==
  [][\A p \in Procs : (Commits(p) /\ SameInputs(p)) =>
        /\ computed_priorities' = computed_priorities
        /\ assessment_responses' = assessment_responses
        /\ \A x \in BagToSet(computed_priorities') : CopiesIn(x, computed_priorities') = 1
    ]_vars

\* a second run on unchanged answers has committed
C3_Witness ==
  \E p \in Procs :
    /\ pc[p] = "done"
    /\ txn[p].note = "same"
    /\ PrioritiesOf(computed_priorities, txn[p].r) # {}

\* C4: a response becomes completed only from in_progress and only by the COMMIT of a
\* computeResults invocation on it; a completed response stays completed (until an
\* admin deletes the row), whatever runs again.
C4_StatusMonotone ==
  [][\A r \in Resps :
       LET a == assessment_responses[r].status
           b == assessment_responses'[r].status
       IN /\ a = "completed" => b \in {"completed", "none"}
          /\ (a # "completed" /\ b = "completed") =>
               /\ a = "in_progress"
               /\ \E p \in Procs : Commits(p) /\ txn[p].r = r
          /\ (a = "none" /\ b # "none") => b = "in_progress"
    ]_vars

\* a repeat run has committed on a completed response and it is still completed
C4_Witness ==
  \E p \in Procs :
    /\ pc[p] = "done"
    /\ txn[p].note \in {"same", "other"}
    /\ assessment_responses[txn[p].r].status = "completed"

\* C5: after computeResults commits, the priority rows of the response are exactly the
\* rows this run wrote, no row of an earlier run is left.
C5_WholesaleReplacement ==
  [][\A p \in Procs : (Commits(p) /\ Exists(txn[p].r)) =>
        PrioritiesOf(computed_priorities', txn[p].r) = txn[p].priorities]_vars

\* C6: the rank_order values of a completed response's rows are exactly 1..n, without
\* duplicate or gap, and follow priority_score descending.
C6_RankOrderPermutation ==
  \A r \in Resps :
    assessment_responses[r].status = "completed" =>
      LET rows == PrioritiesOf(computed_priorities, r)
      IN /\ \A x \in rows : CopiesIn(x, computed_priorities) = 1
         /\ \A k \in 1..Cardinality(rows) :
              Cardinality({x \in rows : x.rank_order = k}) = 1
         /\ \A x, y \in rows :
              x.rank_order < y.rank_order => x.priority_score >= y.priority_score

\* C7: with concurrent invocations on one response, the committed rows and overall
\* figures of the response are those of the invocation that committed last, never a
\* mixture of two runs.
C7_LastCommitWins ==
  \A r \in Resps :
    assessment_responses[r].status = "completed" =>
      /\ PrioritiesOf(computed_priorities, r) = LastPriorities(r)
      /\ assessment_responses[r].overall_score = OverallOf(lastIn[r]).overallScore
      /\ assessment_responses[r].overall_gap = OverallOf(lastIn[r]).overallGap

\* C8: no step of computeResults(r) changes a priority row or the response row of
\* another response, a topic response, or the topics.
C8_WritesOnlyOwnResponse ==
  [][\A p \in Procs : StepOf(p) =>
        /\ \A r2 \in Resps \ {txn[p].r} :
             /\ PrioritiesOf(computed_priorities', r2) = PrioritiesOf(computed_priorities, r2)
             /\ assessment_responses'[r2] = assessment_responses[r2]
        /\ topic_responses' = topic_responses
        /\ topics' = topics
    ]_vars

\* two overlapping invocations on different responses have both committed their rows
C8_Witness ==
  /\ pc[1] = "done"
  /\ pc[2] = "done"
  /\ txn[1].r # txn[2].r
  /\ PrioritiesOf(computed_priorities, txn[1].r) # {}
  /\ PrioritiesOf(computed_priorities, txn[2].r) # {}

\* C9: the completion endpoint starts computeResults only when the response row exists
\* and every topic the assessment has at that moment has an answer of the response;
\* a request it rejects (404, 400) changes nothing.
C9_CompleteOnlyWhenAllAnswered ==
  [][\A p \in Procs, r \in Resps :
       Complete(p, r) =>
         IF pc'[p] = "readTopicResponses"
         THEN /\ Exists(r)
              /\ \A t \in topics :
                   \E x \in topic_responses : x.response_id = r /\ x.topic_id = t
         ELSE pc'[p] \in {"404", "400"} /\ UNCHANGED Tables
    ]_vars

\* C10: matchesConditions returns true exactly when no bound that is set is violated,
\* a minimum by a smaller value and a maximum by a larger one (equality satisfies);
\* a rule with score_max 2.5 and gap_min 0.5 matches (2.0, 4.0, 2.0).
MatchBounds(in) ==
  { <<in.rec.score_min, in.score, "min">>, <<in.rec.score_max, in.score, "max">>,
    <<in.rec.target_min, in.target, "min">>, <<in.rec.target_max, in.target, "max">>,
    <<in.rec.gap_min, in.gap, "min">>, <<in.rec.gap_max, in.gap, "max">> }

BoundViolated(b) ==
  /\ b[1] # Null
  /\ IF b[3] = "min" THEN b[2] < b[1] ELSE b[2] > b[1]

MatchExample(in) ==
  /\ in.rec.score_min = Null /\ in.rec.score_max = 250
  /\ in.rec.target_min = Null /\ in.rec.target_max = Null
  /\ in.rec.gap_min = 50 /\ in.rec.gap_max = Null
  /\ in.score = 200 /\ in.target = 400 /\ in.gap = 200

C10_MatchIffAllBoundsHold ==
  fpc = "return" =>
    /\ fout[1] = (~\E b \in MatchBounds(fin) : BoundViolated(b))
    /\ MatchExample(fin) => fout[1]

\* the rule of the example was applied to (2.0, 4.0, 2.0) and matched
C10_Witness == fpc = "return" /\ MatchExample(fin) /\ fout[1]

\* ids of the rules a row matched
IdsOf(list) == {list[i].id : i \in 1..Len(list)}

\* the rules loaded for the topic of a row
RulesFor(recs, row) == {recs[i] : i \in {j \in 1..Len(recs) : recs[j].topic_id = row.topic_id}}

\* no set bound of rec is violated by (score, target, gap)
BoundsHold(rec, score, target, gap) ==
  ~\E b \in MatchBounds([rec |-> rec, score |-> score, target |-> target, gap |-> gap]) :
     BoundViolated(b)

\* C11 as stated: the gap bounds of a rule are evaluated against target - current,
\* negative for an over-performing topic.
C11_MatchOnSignedGap ==
  fpc = "return" =>
    \A i \in 1..Len(fin.rows) :
      LET row == fin.rows[i]
      IN \A rec \in RulesFor(fout[1].recs, row) :
           (rec.id \in IdsOf(fout[1].matched[i])) =
             BoundsHold(rec, row.current_rating, row.target_rating,
                        row.target_rating - row.current_rating)

\* C11 amended: the gap bounds of a rule are evaluated against max(target - current, 0):
\* for an over-performing topic the value is 0, so a rule with gap_min 0 is not excluded
\* by its gap bound and no gap bound is ever compared with a negative value.
C11_MatchOnNormalizedGap ==
  fpc = "return" =>
    \A i \in 1..Len(fin.rows) :
      LET row == fin.rows[i]
          raw == row.target_rating - row.current_rating
      IN \A rec \in RulesFor(fout[1].recs, row) :
           (rec.id \in IdsOf(fout[1].matched[i])) =
             BoundsHold(rec, row.current_rating, row.target_rating,
                        IF raw > 0 THEN raw ELSE 0)

\* an over-performing topic matched a rule whose only bound is gap_min = 0
C11_Witness ==
  /\ fpc = "return"
  /\ \E i \in 1..Len(fin.rows) :
       /\ fin.rows[i].current_rating > fin.rows[i].target_rating
       /\ \E rec \in RulesFor(fout[1].recs, fin.rows[i]) :
            /\ rec.gap_min = 0
            /\ rec.id \in IdsOf(fout[1].matched[i])

\* the gap computeResults evaluates the gap bounds against (C11)
NormalizedGapOf(row) ==
  IF row.target_rating > row.current_rating
  THEN row.target_rating - row.current_rating ELSE 0

\* the rule is active, belongs to a topic the rows answer in dimension d, and no bound
\* of it is violated by that topic's own triple
Justified(snap, d, rows, table) ==
  \E k \in 1..Len(table), i \in 1..Len(rows) :
    /\ table[k].id = snap.id
    /\ table[k].is_active
    /\ table[k].topic_id = rows[i].topic_id
    /\ snap.topicId = rows[i].topic_id
    /\ rows[i].dimension_id = d
    /\ BoundsHold(table[k], rows[i].current_rating, rows[i].target_rating,
                  NormalizedGapOf(rows[i]))

\* C12: every recommendation in the snapshot of a dimension comes from a rule that is
\* active, belongs to a topic of that dimension the response answered, and has no bound
\* violated by that topic's own (score, target, gap); an inactive rule or a rule of
\* another topic never appears, whatever its bounds.
C12_OnlyActiveOwnTopicRules ==
  fpc = "return" =>
    \A row \in fout[1].priorities :
      \A n \in 1..Len(row.recommendations) :
        Justified(row.recommendations[n], row.dimension_id, fin.rows, fin.table)

\* a dimension has a recommendation while an inactive rule of one of its answered
\* topics has all bounds satisfied, and a rule of another topic would fit this topic
C12_Witness ==
  /\ fpc = "return"
  /\ \E row \in fout[1].priorities : Len(row.recommendations) > 0
  /\ \E k \in 1..Len(fin.table), i \in 1..Len(fin.rows) :
       /\ ~fin.table[k].is_active
       /\ fin.table[k].topic_id = fin.rows[i].topic_id
       /\ BoundsHold(fin.table[k], fin.rows[i].current_rating,
                     fin.rows[i].target_rating, NormalizedGapOf(fin.rows[i]))
  /\ \E k \in 1..Len(fin.table), i \in 1..Len(fin.rows) :
       /\ fin.table[k].is_active
       /\ fin.table[k].topic_id # fin.rows[i].topic_id
       /\ fin.table[k].topic_id \notin TopicIdsOf(fin.rows)
       /\ BoundsHold(fin.table[k], fin.rows[i].current_rating,
                     fin.rows[i].target_rating, NormalizedGapOf(fin.rows[i]))

\* the snapshots the rows of dimension d matched
MatchedIn(d) ==
  UNION { {fout[1].matched[i][n] : n \in 1..Len(fout[1].matched[i])}
          : i \in {j \in 1..Len(fin.rows) : fin.rows[j].dimension_id = d} }

EntriesOf(list) == {list[n] : n \in 1..Len(list)}

\* C13: the persisted list of a dimension has at most 5 entries, all of them matches of
\* the dimension, in non-increasing priority; a match is left out only when the list is
\* full, and then its priority is at most the lowest priority in the list.
C13_TopFiveByPriority ==
  fpc = "return" =>
    \A row \in fout[1].priorities :
      LET list == row.recommendations
      IN /\ Len(list) <= 5
         /\ \A n, m \in 1..Len(list) : n < m => list[n].priority >= list[m].priority
         /\ EntriesOf(list) \subseteq MatchedIn(row.dimension_id)
         /\ \A x \in MatchedIn(row.dimension_id) \ EntriesOf(list) :
              /\ Len(list) = 5
              /\ \A n \in 1..Len(list) : x.priority <= list[n].priority

\* a dimension matched more than five rules and its list holds five
C13_Witness ==
  /\ fpc = "return"
  /\ \E row \in fout[1].priorities :
       /\ Cardinality(MatchedIn(row.dimension_id)) > 5
       /\ Len(row.recommendations) = 5

\* position of the topic of a snapshot among the topic response rows
RowIndexOf(snap) == CHOOSE i \in 1..Len(fin.rows) : fin.rows[i].topic_id = snap.topicId

\* order_index of the rule of a snapshot
OrderIndexOf(snap) ==
  LET k == CHOOSE j \in 1..Len(fin.table) : fin.table[j].id = snap.id
  IN fin.table[k].order_index

\* x was discovered before y, for two matches of equal priority: an earlier topic, or
\* the same topic and an earlier place in the load order (order_index ascending)
DiscoveredBefore(x, y) ==
  \/ RowIndexOf(x) < RowIndexOf(y)
  \/ RowIndexOf(x) = RowIndexOf(y) /\ OrderIndexOf(x) < OrderIndexOf(y)

\* C14: matches of equal priority stand in the list in the order they were discovered
\* (topics in dimension/topic order, rules of one topic in load order), and a match
\* left out of a full list was discovered after every listed match of its priority.
C14_TiesKeepDiscoveryOrder ==
  fpc = "return" =>
    \A row \in fout[1].priorities :
      LET list == row.recommendations
      IN /\ \A n, m \in 1..Len(list) :
              (n < m /\ list[n].priority = list[m].priority) =>
                DiscoveredBefore(list[n], list[m])
         /\ \A x \in MatchedIn(row.dimension_id) \ EntriesOf(list) :
              \A n \in 1..Len(list) :
                list[n].priority = x.priority => DiscoveredBefore(list[n], x)

\* a list holds tied matches of two topics and of one topic, and a tied match is left out
C14_Witness ==
  /\ fpc = "return"
  /\ \E row \in fout[1].priorities :
       LET list == row.recommendations
       IN /\ \E n, m \in 1..Len(list) :
               /\ n < m /\ list[n].priority = list[m].priority
               /\ list[n].topicId # list[m].topicId
          /\ \E n, m \in 1..Len(list) :
               /\ n < m /\ list[n].priority = list[m].priority
               /\ list[n].topicId = list[m].topicId
          /\ \E x \in MatchedIn(row.dimension_id) \ EntriesOf(list) :
               \E n \in 1..Len(list) : list[n].priority = x.priority

\* sum of f[i] over the indices in S
RECURSIVE SumOver(_, _)
SumOver(f, S) ==
  IF S = {} THEN 0
  ELSE LET i == CHOOSE j \in S : TRUE IN f[i] + SumOver(f, S \ {i})

\* o is total / n rounded to the nearest integer, a half going up
RoundedMean(o, total, n) == 0 <= 2 * total + n - 2 * o * n /\ 2 * total + n - 2 * o * n < 2 * n

\* the pairs of fin in which both ratings are finite numbers
ValidPairs == {i \in 1..Len(fin) : fin[i].currentRating \notin {NaN, Null}
                                    /\ fin[i].targetRating \notin {NaN, Null}}

\* C15: calculateDimensionMetrics returns the mean of currentRating and the mean of
\* max(target - current, 0) over exactly the pairs with two finite ratings, each rounded
\* to 2 decimals, and {0, 0} when there is no such pair; current {2,3,4} with target
\* {4,4,4} gives 3.00 and 1.00.
C15_DimensionMeans ==
  fpc = "return" =>
    LET n == Cardinality(ValidPairs)
        cur == [i \in 1..Len(fin) |-> fin[i].currentRating]
        gap == [i \in 1..Len(fin) |->
                  IF fin[i].targetRating > fin[i].currentRating
                  THEN fin[i].targetRating - fin[i].currentRating ELSE 0]
    IN /\ n = 0 => fout[1] = [score |-> 0, gap |-> 0]
       /\ n > 0 => /\ RoundedMean(fout[1].score, SumOver(cur, ValidPairs), n)
                   /\ RoundedMean(fout[1].gap, SumOver(gap, ValidPairs), n)
       /\ (fin = << [currentRating |-> 200, targetRating |-> 400],
                    [currentRating |-> 300, targetRating |-> 400],
                    [currentRating |-> 400, targetRating |-> 400] >>)
            => fout[1] = [score |-> 300, gap |-> 100]

\* a dimension with a non-finite pair among valid ones was averaged over the valid ones
C15_Witness ==
  /\ fpc = "return"
  /\ Len(fin) = 3
  /\ Cardinality(ValidPairs) = 2
  /\ fout[1].score > 0
  /\ fout[1].gap > 0

\* sum of the field f over a set of rows
RECURSIVE SumRows(_, _)
SumRows(S, f) ==
  IF S = {} THEN 0
  ELSE LET x == CHOOSE y \in S : TRUE IN x[f] + SumRows(S \ {x}, f)

DimsOfAssessment == {TopicDim[t] : t \in topics}

\* C17: after computeResults(r) commits, every dimension of the assessment has a
\* priority row of r, and a dimension without an answered topic has one with score 0
\* and gap 0.
C17_RowForEveryDimension ==
  [][\A p \in Procs : (Commits(p) /\ Exists(txn[p].r)) =>
        \A d \in DimsOfAssessment :
          \E x \in PrioritiesOf(computed_priorities', txn[p].r) :
            /\ x.dimension_id = d
            /\ (~\E y \in topic_responses :
                   y.response_id = txn[p].r /\ TopicDim[y.topic_id] = d)
                 => (x.dimension_score = 0 /\ x.dimension_gap = 0)
    ]_vars

\* C18: for all ratings in [1,5] the topic response the answer endpoint stores carries
\* gap = target - current and normalized_gap = max(gap, 0), the values of
\* calculateTopicGap: (2, 4) gives 2 and 2, (4, 2) gives -2 and 0.
C18_StoredGaps ==
  \A x \in topic_responses :
    /\ x.gap = x.target_rating - x.current_rating
    /\ x.normalized_gap = (IF x.gap > 0 THEN x.gap ELSE 0)
    /\ (x.current_rating = 200 /\ x.target_rating = 400)
         => (x.gap = 200 /\ x.normalized_gap = 200)
    /\ (x.current_rating = 400 /\ x.target_rating = 200)
         => (x.gap = 0 - 200 /\ x.normalized_gap = 0)

\* an over-performing answer (4, 2) is stored
C18_Witness ==
  \E x \in topic_responses :
    x.current_rating = 400 /\ x.target_rating = 200 /\ x.normalized_gap = 0

\* the entries of all persisted per-dimension lists
PersistedEntries(rows) == UNION {EntriesOf(x.recommendations) : x \in rows}

\* C19: the topRecommendations of a results read have at most 5 entries, each from the
\* persisted list of some dimension of the response, in non-increasing priority; an
\* entry of a dimension list is left out only when five are returned, and then its
\* priority is at most the lowest priority returned; the read changes no table.
C19_TopRecommendations ==
  [][(fpc = "return" /\ fpc' = "read") =>
       LET top == fout'[2]
           all == PersistedEntries(fout[1].priorities)
       IN /\ Len(top) <= 5
          /\ EntriesOf(top) \subseteq all
          /\ \A n, m \in 1..Len(top) : n < m => top[n].priority >= top[m].priority
          /\ \A x \in all \ EntriesOf(top) :
               /\ Len(top) = 5
               /\ \A n \in 1..Len(top) : x.priority <= top[n].priority
          /\ UNCHANGED Tables
    ]_vars

\* a read of two dimension lists holding six entries returned five, from both lists
C19_Witness ==
  /\ fpc = "read"
  /\ Cardinality(PersistedEntries(fout[1].priorities)) > 5
  /\ Len(fout[2]) = 5
  /\ \E n, m \in 1..5 : PureDim[fout[2][n].topicId] # PureDim[fout[2][m].topicId]

RowsFor(table, r, t) == {x \in table : x.response_id = r /\ x.topic_id = t}

Submitting(r) == \E p \in Procs : pc[p] = "progress" /\ txn[p].r = r

\* C20: there is at most one topic response per (response, topic); a submission for
\* an answered topic leaves the number of rows unchanged and the row carries the
\* submitted ratings, gap and normalized gap, every other row staying as it was; a
\* response with no submission between its two statements has answered_questions
\* equal to the number of its distinct answered topics.
C20_OneRowPerTopic ==
  [][/\ \A r \in Resps, t \in Topics : Cardinality(RowsFor(topic_responses', r, t)) <= 1
     /\ \A r \in Resps :
          (Exists(r)' /\ ~Submitting(r)') =>
            assessment_responses'[r].answered_questions =
              Cardinality({x.topic_id : x \in AnswersOf(topic_responses', r)})
     /\ \A p \in Procs, r \in Resps, t \in Topics, a \in RatingPairs :
          (SubmitUpsert(p, r, t, a[1], a[2]) /\ pc'[p] = "progress") =>
            /\ \E x \in RowsFor(topic_responses', r, t) :
                 /\ x.current_rating = a[1]
                 /\ x.target_rating = a[2]
                 /\ x.gap = a[2] - a[1]
                 /\ x.normalized_gap = (IF a[2] > a[1] THEN a[2] - a[1] ELSE 0)
            /\ topic_responses' \ RowsFor(topic_responses', r, t) =
                 topic_responses \ RowsFor(topic_responses, r, t)
            /\ (RowsFor(topic_responses, r, t) # {} =>
                  Cardinality(topic_responses') = Cardinality(topic_responses))
    ]_vars

\* two submissions of different ratings for one topic of one response overlap, and
\* the topic has one row
C20_Witness ==
  /\ pc[1] = "progress" /\ pc[2] = "progress"
  /\ txn[1].r = txn[2].r
  /\ txn[1].rows[1].topic_id = txn[2].rows[1].topic_id
  /\ txn[1].rows[1] # txn[2].rows[1]
  /\ Cardinality(RowsFor(topic_responses, txn[1].r, txn[1].rows[1].topic_id)) = 1
  /\ Cardinality(AnswersOf(topic_responses, txn[1].r)) = 2

OnGrid(x) == x >= 100 /\ x <= 500 /\ x % 50 = 0

\* C21: every stored topic response has both ratings in [1, 5] on the 0.5 grid, and a
\* submission with a rating out of range or off the grid stores nothing.
C21_RatingsOnGrid ==
  [][/\ \A x \in topic_responses' : OnGrid(x.current_rating) /\ OnGrid(x.target_rating)
     /\ \A r \in Resps, t \in Topics \cup {ForeignTopic}, a \in RawPairs, dbOk \in BOOLEAN :
          (PutAnswer(1, r, t, a[1], a[2], dbOk) /\ ~(OnGrid(a[1]) /\ OnGrid(a[2]))) =>
            (pc'[1] # "progress" /\ UNCHANGED topic_responses)
    ]_vars

\* in SpecPutAnswer a step that counts a request is a step of the answer handler, and
\* txn holds the request it served
\* the submitted topic is not a topic of the assessment of an existing response
NotOfAssessment(r, t) == ~Exists(r) \/ t = ForeignTopic \/ t \notin topics

\* C22: a valid submission whose topic does not belong to the response's assessment
\* is answered with 422, not handed to next(), writes no topic response and leaves
\* the answered count of every response as it was; no progress update follows it.
C22_ForeignTopicIs422 ==
  [][/\ (/\ requests' = requests + 1
         /\ pc'[1] # "next"
         /\ answerTopicSchema(txn'[1].rows[1].current_rating,
                              txn'[1].rows[1].target_rating)
         /\ NotOfAssessment(txn'[1].r, txn'[1].rows[1].topic_id)) =>
          /\ pc'[1] = "422"
          /\ UNCHANGED <<topic_responses, assessment_responses>>
     /\ (pc[1] = "422" => UNCHANGED assessment_responses \/ Start)
    ]_vars

\* a submission of the foreign topic for a response that holds an answer got 422
C22_Witness ==
  /\ pc[1] = "422"
  /\ txn[1].rows[1].topic_id = ForeignTopic
  /\ Exists(txn[1].r)
  /\ AnswersOf(topic_responses, txn[1].r) # {}
  /\ ForeignTopic \notin {x.topic_id : x \in topic_responses}

\* the caller sent the token stored for the response of the path
HoldsToken(in) == in.header \in SessionKeys /\ in.table[in.responseId] = in.header

\* C23: requireResponseSession passes the request on only when the x-session-token
\* header equals the token stored for the response of the path; without a token it
\* answers 401, with a token that is not that response's it answers 403, and no
\* route handler runs for a response whose token the caller does not hold.
C23_SessionGuard ==
  fpc \in {"return", "handled"} =>
    /\ (fout[1] = "next" => HoldsToken(fin))
    /\ ((HoldsToken(fin) /\ fin.dbOk) => fout[1] = "next")
    /\ (fin.header \in {NoHeader, ""} => fout[1] = "401")
    /\ ((fin.header \in SessionKeys /\ ~HoldsToken(fin) /\ fin.dbOk) => fout[1] = "403")
    /\ (fpc = "handled" => (HoldsToken(fin) /\ fout[2].responseId = fin.responseId))

\* the token of another response was presented and refused
C23_Witness ==
  /\ fpc = "return"
  /\ fout[1] = "403"
  /\ \E q \in Resps : q # fin.responseId /\ fin.table[q] = fin.header
  /\ fin.table[fin.responseId] \in SessionKeys

Hierarchy == <<"creator", "admin", "super_admin">>

RankOf(role) == CHOOSE n \in 1..3 : Hierarchy[n] = role

InHierarchy(role) == \E n \in 1..3 : Hierarchy[n] = role

\* the role has a rank in the hierarchy that is at least the lowest rank among the
\* allowed roles
AtLeastLowestAllowed(role, allowed) ==
  /\ InHierarchy(role)
  /\ \E a \in allowed : InHierarchy(a)
  /\ \A a \in allowed :
       (InHierarchy(a) /\ \A b \in allowed : InHierarchy(b) => RankOf(a) <= RankOf(b))
         => RankOf(role) >= RankOf(a)

\* C26: requireRole passes the request on only if the user's role is listed or its
\* level in the hierarchy is at least the lowest level among the allowed roles;
\* otherwise it answers 403, and 401 when there is no authenticated user.
C26_RoleGuard ==
  fpc = "return" =>
    /\ (fin.user = NoUser <=> fout[1] = "401")
    /\ (fout[1] = "next" <=>
          (/\ fin.user # NoUser
           /\ (fin.user \in fin.allowedRoles
                 \/ AtLeastLowestAllowed(fin.user, fin.allowedRoles))))
    /\ fout[1] \in {"401", "403", "next"}

\* a creator is refused by requireRole('admin')
C26_Witness ==
  /\ fpc = "return"
  /\ fin.user = "creator"
  /\ fin.allowedRoles = {"admin"}
  /\ fout[1] = "403"

\* the csrf_token cookie the request carries: "t2" may arrive percent-encoded
CarriedCookies(in) ==
  (IF in.cookies \in {"t1", "t2"} THEN {in.cookies} ELSE {})
    \cup (IF in.rawCookie = "t1" THEN {"t1"} ELSE {})
    \cup (IF in.rawCookie = "t%32" THEN {"t2"} ELSE {})

FreshPriorities(r) ==
  LET rows == SelectTopicResponses(topic_responses, r)
  IN PriorityRows(r, rows, SelectTopicRecs(TopicIdsOf(rows)))

FreshOverall(r) == OverallOf(SelectTopicResponses(topic_responses, r))

\* C28: while the catalog is the one the responses were started on, a completed
\* response's priority rows and overall figures are those the engine computes from
\* the topic responses it holds now.
C28_CompletedResultsFresh ==
  \A r \in Resps :
    (assessment_responses[r].status = "completed" /\ topics = {"t1"}) =>
      /\ PrioritiesOf(computed_priorities, r) = FreshPriorities(r)
      /\ assessment_responses[r].overall_score = FreshOverall(r).overallScore
      /\ assessment_responses[r].overall_gap = FreshOverall(r).overallGap

\* C29: every committed priority row belongs to an existing response whose status is
\* completed and whose overall score and gap are set.
C29_PrioritiesOnlyForCompleted ==
  \A x \in BagToSet(computed_priorities) :
    /\ assessment_responses[x.response_id].status = "completed"
    /\ assessment_responses[x.response_id].overall_score # Null
    /\ assessment_responses[x.response_id].overall_gap # Null

\* a response whose computation had committed was deleted while another response
\* keeps its priority rows
C29_Witness ==
  \E p \in Procs :
    /\ pc[p] = "done"
    /\ ~Exists(txn[p].r)
    /\ PrioritiesOf(computed_priorities, txn[p].r) = {}
    /\ \E r \in Resps : PrioritiesOf(computed_priorities, r) # {}

CountOf(log, s) == Cardinality({n \in 1..Len(log) : log[n] = s})

PositionOf(log, s) == CHOOSE n \in 1..Len(log) : log[n] = s

Writes == {"upsert", "update"}

CommitFailed == fin.failAt = Len(TryStatements(fin.queries))

\* what every finished invocation has done, whichever statement threw
TxnClosed(log) ==
  /\ CountOf(log, "BEGIN") = 1 /\ log[1] = "BEGIN"
  /\ CountOf(log, "release") = 1 /\ log[Len(log)] = "release"
  /\ CountOf(log, "COMMIT") <= 1 /\ CountOf(log, "ROLLBACK") <= 1
  /\ \A n \in 1..Len(log) :
       (log[n] \in Writes) =>
         /\ \A m \in 1..n : log[m] \notin {"COMMIT", "ROLLBACK"}
         /\ CountOf(log, log[n]) = 1
  /\ (fpc = "returned") =>
       (CountOf(log, "COMMIT") = 1 /\ ~CommitFailed /\ CountOf(log, "ROLLBACK") = 0)

\* C30 as claimed: a finished invocation has issued BEGIN once and exactly one of
\* COMMIT and ROLLBACK, never both, with no write after it, has released the client
\* once, and has returned only after a successful COMMIT.
C30_ExactlyOneOfCommitRollback ==
  fpc \in {"returned", "thrown"} =>
    /\ TxnClosed(fout.log)
    /\ CountOf(fout.log, "COMMIT") + CountOf(fout.log, "ROLLBACK") = 1

\* C30 amended: every invocation runs to its end without a retry; it has then issued
\* BEGIN once and COMMIT or ROLLBACK, both only when the COMMIT itself failed and then
\* in this order, with no write after either, has released the client exactly once
\* and last, and has returned only after a successful COMMIT.
C30_TransactionClosedOnce ==
  /\ (fpc \notin {"returned", "thrown"} => ENABLED NextTxn)
  /\ Len(fout.log) <= Len(TryStatements(fin.queries)) + 2
  /\ fpc \in {"returned", "thrown"} =>
       /\ TxnClosed(fout.log)
       /\ CountOf(fout.log, "COMMIT") + CountOf(fout.log, "ROLLBACK") >= 1
       /\ (CountOf(fout.log, "COMMIT") + CountOf(fout.log, "ROLLBACK") = 2) =>
            (/\ CommitFailed
             /\ PositionOf(fout.log, "ROLLBACK") = PositionOf(fout.log, "COMMIT") + 1)

\* the COMMIT threw, the ROLLBACK that followed threw as well, the client was released
C30_Witness ==
  /\ fpc = "thrown"
  /\ CommitFailed
  /\ fin.rollbackFails
  /\ fout.log[Len(fout.log)] = "release"
  /\ Len(fin.queries) = 4

====
